---- MODULE Spec2Model ----
(***************************************************************************)
(* Model of src/test-framework/dbt/src/debugger.rs: the correlation-id     *)
(* protocol (assign_correlation_ids), script synthesis                     *)
(* (generate_debugger_script), the mock backend's echo                     *)
(* (create_mock_debugger_output), the output partitioner                   *)
(* (debugger_output_by_correlation_id), the matcher                        *)
(* (process_debugger_output), the per-kind command-emission methods and    *)
(* the version extractors (extract_gdb_version, extract_cdb_version).      *)
(*                                                                         *)
(* A line of text is a sequence of tokens whose concatenation is the line. *)
(* The two marker literals are single tokens; the characters that follow a *)
(* marker are one token each, so that formatting and parsing an identifier *)
(* are real conversions.  Option<T> is a sequence of length 0 or 1.        *)
(***************************************************************************)
EXTENDS Integers, Sequences, FiniteSets, TLC

\* ------------------------------------------------------------------ bounds

\* longest directive (leaf) sequence of the pipeline specification
MaxLeaves == 4
\* longest directive sequence of the identifier-assignment specification
MaxAssignLeaves == 6
\* longest directive sequence given to the output specification
MaxOutLeaves == 3
\* longest captured stdout, in lines, of the output specification
MaxOut == 4
\* number of #break directives of a test definition
MaxBreakpoints == 1
\* number of user-supplied prelude commands of a Debugger Instance
MaxPrelude == 1
\* longest directive sequence shared by the concurrent pipeline runs
MaxConcLeaves == 2
\* number of pipeline runs interleaved over one test definition
MaxRuns == 2
\* longest stdout, in lines, of the partitioner specification
MaxPartOut == 4
\* longest directive sequence and stdout of the two-output specification
MaxPairLeaves == 2
MaxPairOut == 3

\* ------------------------------------------------------- program constants

CORRELATION_ID_BEGIN_MARKER == "__output_with_correlation_id_begin__="
CORRELATION_ID_END_MARKER == "__output_with_correlation_id_end__="

\* u32::MAX, the largest value a CorrelationId parses to, in decimal
U32MaxText == <<"4", "2", "9", "4", "9", "6", "7", "2", "9", "5">>

DebuggerKind == {"Gdb", "Cdb", "Lldb", "Mock"}

\* Option<T>
None == <<>>
Some(x) == <<x>>
IsSome(o) == Len(o) = 1
Unwrap(o) == o[1]

\* ------------------------------------------------------------ text helpers

Range(s) == {s[i] : i \in DOMAIN s}

RECURSIVE SeqsUpTo(_, _)
\* all sequences over S of length at most n
SeqsUpTo(S, n) ==
    IF n = 0 THEN {<<>>}
    ELSE LET shorter == SeqsUpTo(S, n - 1)
         IN  shorter \cup {Append(s, x) : s \in {t \in shorter : Len(t) = n - 1}, x \in S}

Digits == <<"0", "1", "2", "3", "4", "5", "6", "7", "8", "9">>

DigitValue(c) == CHOOSE d \in 0..9 : Digits[d + 1] = c

RECURSIVE ToDecimal(_)
\* `{}` formatting of a u32: its decimal digits, most significant first
ToDecimal(n) ==
    IF n < 10 THEN <<Digits[n + 1]>>
    ELSE Append(ToDecimal(n \div 10), Digits[(n % 10) + 1])

RECURSIVE DecimalValue(_)
DecimalValue(s) ==
    IF s = <<>> THEN 0
    ELSE 10 * DecimalValue(SubSeq(s, 1, Len(s) - 1)) + DigitValue(s[Len(s)])

RECURSIVE StripZeros(_)
StripZeros(s) == IF s # <<>> /\ s[1] = "0" THEN StripZeros(Tail(s)) ELSE s

\* whether digit string a, as long as b, denotes a number greater than b's
GreaterDigits(a, b) ==
    \E i \in DOMAIN a :
        /\ DigitValue(a[i]) > DigitValue(b[i])
        /\ \A j \in 1..(i - 1) : a[j] = b[j]

\* str::parse::<u32>: an optional leading "+", then one or more decimal
\* digits, the value at most u32::MAX; anything else is an Err (None here)
ParseU32(s) ==
    LET digits == IF s # <<>> /\ s[1] = "+" THEN Tail(s) ELSE s
        significant == StripZeros(digits)
    IN  IF digits = <<>> \/ \E i \in DOMAIN digits : digits[i] \notin Range(Digits)
        THEN None
        ELSE IF \/ Len(significant) > Len(U32MaxText)
                \/ /\ Len(significant) = Len(U32MaxText)
                   /\ GreaterDigits(significant, U32MaxText)
        THEN None
        ELSE Some(DecimalValue(digits))

\* str::starts_with / str::contains for a marker literal
StartsWith(line, marker) == line # <<>> /\ line[1] = marker
Contains(line, marker) == \E i \in DOMAIN line : line[i] = marker

\* tokens that hold the character '='
HasEquals(tok) ==
    tok \in {CORRELATION_ID_BEGIN_MARKER, CORRELATION_ID_END_MARKER, "="}

\* Outcome of extract_correlation_id: Some(id), or None where one of its
\* unwrap() calls panics (no '=' in the line, or the text after the last '='
\* does not parse as a u32).  Its debug_assert! holds at its one call site,
\* which passes a line that starts with the begin marker.
extract_correlation_id(line) ==
    IF ~\E i \in DOMAIN line : HasEquals(line[i]) THEN None
    ELSE LET last == CHOOSE i \in DOMAIN line :
                        /\ HasEquals(line[i])
                        /\ \A j \in DOMAIN line : HasEquals(line[j]) => j <= i
         IN  ParseU32(SubSeq(line, last + 1, Len(line)))

\* ------------------------------------------------ the Correlation Protocol

\* A leaf of the filtered directive sequence (script::Statement): its kind,
\* its text (a command, or a check's source) and its identifier slot.
Statement(kind, text) == [kind |-> kind, text |-> text, cid |-> None]

\* State of one run of assign_correlation_ids: the clone being written, the
\* three locals, the warn! records and whether an assertion panicked.
AssignInit(script) ==
    [script |-> script,
     correlation_ids_checked |-> {},
     next_correlation_id |-> 0,
     last_correlation_id_emitted |-> None,
     warnings |-> <<>>,
     panic |-> "none"]

\* assign_exec with the reuse test dropped: an identifier is reused whenever
\* one was emitted, checked or not
assign_exec_always_reuses(st, i) ==
    LET last == st.last_correlation_id_emitted
        correlation_id == IF IsSome(last) THEN Unwrap(last) ELSE st.next_correlation_id
    IN  [st EXCEPT
            !.next_correlation_id = IF IsSome(last) THEN @ ELSE @ + 1,
            !.script[i].cid = Some(correlation_id),
            !.last_correlation_id_emitted = Some(correlation_id)]

\* assign_exec with the reuse branch dropped: every command allocates
assign_exec_always_allocates(st, i) ==
    [st EXCEPT
        !.next_correlation_id = @ + 1,
        !.script[i].cid = Some(st.next_correlation_id),
        !.last_correlation_id_emitted = Some(st.next_correlation_id)]

\* assign_exec that advances the counter on every command, also when the
\* previous identifier is reused
assign_exec_counts_every_command(st, i) ==
    LET last == st.last_correlation_id_emitted
        last_id_has_been_checked ==
            IF IsSome(last) THEN Unwrap(last) \in st.correlation_ids_checked ELSE TRUE
        correlation_id ==
            IF last_id_has_been_checked THEN st.next_correlation_id ELSE Unwrap(last)
    IN  [st EXCEPT
            !.next_correlation_id = @ + 1,
            !.script[i].cid = Some(correlation_id),
            !.last_correlation_id_emitted = Some(correlation_id)]

\* The Statement::Exec arm of the visitor
assign_exec(st, i) ==
    LET last == st.last_correlation_id_emitted
        last_id_has_been_checked ==
            IF IsSome(last) THEN Unwrap(last) \in st.correlation_ids_checked ELSE TRUE
        correlation_id ==
            IF last_id_has_been_checked THEN st.next_correlation_id ELSE Unwrap(last)
    IN  IF st.script[i].cid # None
        THEN [st EXCEPT !.panic = "debug_assert_slot_unset"]
        ELSE [st EXCEPT
                !.next_correlation_id =
                    IF last_id_has_been_checked THEN @ + 1 ELSE @,
                !.script[i].cid = Some(correlation_id),
                !.last_correlation_id_emitted = Some(correlation_id)]

\* assign_check that does not record the identifier as checked
assign_check_forgets(st, i) ==
    LET last == st.last_correlation_id_emitted
    IN  IF IsSome(last)
        THEN IF Unwrap(last) # st.next_correlation_id - 1
             THEN [st EXCEPT !.panic = "debug_assert_last_id"]
             ELSE [st EXCEPT !.script[i].cid = last]
        ELSE [st EXCEPT !.warnings = Append(@, i)]

\* The Statement::Check | Statement::CheckUnorderedBlock arm of the visitor
assign_check(st, i) ==
    LET last == st.last_correlation_id_emitted
    IN  IF IsSome(last)
        THEN IF Unwrap(last) # st.next_correlation_id - 1
             THEN [st EXCEPT !.panic = "debug_assert_last_id"]
             ELSE IF Unwrap(last) \in st.correlation_ids_checked
             THEN \* assert!(correlation_ids_checked.insert(..)) on a second check
                  [st EXCEPT !.script[i].cid = last, !.panic = "assert_insert"]
             ELSE [st EXCEPT
                     !.script[i].cid = last,
                     !.correlation_ids_checked = @ \cup {Unwrap(last)}]
        ELSE [st EXCEPT !.warnings = Append(@, i)]

\* One call of the closure given to walk_applicable_leaves_mut
assign_visit(st, i) ==
    CASE st.script[i].kind = "Exec" -> assign_exec(st, i)
      [] st.script[i].kind \in {"Check", "CheckUnorderedBlock"} -> assign_check(st, i)
      [] OTHER -> st \* IfBlock, IgnoreTest: nothing to do

RECURSIVE assign_walk(_, _)
assign_walk(st, i) ==
    IF i > Len(st.script) \/ st.panic # "none" THEN st
    ELSE assign_walk(assign_visit(st, i), i + 1)

\* Debugger::assign_correlation_ids over a clone of the directive sequence
assign_correlation_ids(script) == assign_walk(AssignInit(script), 1)

\* --------------------------------------------------- the Script Synthesizer

\* Debugger::maybe_emit_correlation_id_command: `output` with the marker
\* command of `kind` appended, or unchanged when the identifier is None
maybe_emit_correlation_id_command(kind, begin, correlation_id, output) ==
    IF IsSome(correlation_id)
    THEN LET marker == IF begin THEN CORRELATION_ID_BEGIN_MARKER
                       ELSE CORRELATION_ID_END_MARKER
             id == ToDecimal(Unwrap(correlation_id))
         IN  CASE kind = "Cdb" -> Append(output, <<".echo ", marker>> \o id)
               [] kind = "Gdb" ->
                    Append(output, <<"python print('", marker>> \o id \o <<"')">>)
               [] kind = "Mock" -> Append(output, <<marker>> \o id)
               [] kind = "Lldb" ->
                    Append(output, <<"script print('", marker>> \o id \o <<"')">>)
    ELSE output

\* emit_script_prelude that skips a kind it has no command for, instead of
\* todo!()
emit_script_prelude_skips_lldb(kind, prelude, script) ==
    [panic |-> "none",
     text |-> (IF kind = "Cdb" THEN Append(script, <<".lines -e">>) ELSE script)
              \o prelude]

\* Debugger::emit_script_prelude: the kind's own prelude line, then the
\* configured prelude commands; todo!() for Lldb
emit_script_prelude(kind, prelude, script) ==
    IF kind = "Lldb" THEN [panic |-> "todo", text |-> script]
    ELSE [panic |-> "none",
          text |-> (IF kind = "Cdb" THEN Append(script, <<".lines -e">>) ELSE script)
                   \o prelude]

\* The backquote character of the Cdb breakpoint syntax, spelled out
Backquote == "BACKQUOTE"

RECURSIVE emit_breakpoints_from(_, _, _, _)
\* test_definition.name is taken to hold a '/', its last component main.rs
emit_breakpoints_from(kind, breakpoints, i, out) ==
    IF i > Len(breakpoints) \/ out.panic # "none" THEN out
    ELSE LET line == ToDecimal(breakpoints[i] + 1)
             next ==
                CASE kind \in {"Cdb", "Mock"} ->
                       [out EXCEPT !.text =
                           Append(@, <<"bp ", Backquote, "main.rs", ":">> \o line
                                      \o <<Backquote>>)]
                  [] kind = "Gdb" ->
                       [out EXCEPT !.text =
                           Append(@, <<"break '", "main.rs", ":">> \o line \o <<"'">>)]
                  [] OTHER -> [out EXCEPT !.panic = "todo"]
         IN  emit_breakpoints_from(kind, breakpoints, i + 1, next)

\* Debugger::emit_breakpoints: one command per #break directive (a
\* line_index); todo!() for Lldb once there is a breakpoint to emit
emit_breakpoints(kind, breakpoints, script) ==
    emit_breakpoints_from(kind, breakpoints, 1, [panic |-> "none", text |-> script])

\* emit_command that opens a span only for the first identifier: a later
\* identifier closes the previous span and opens none
emit_command_opens_once(kind, script, em, i) ==
    IF script[i].kind = "Exec"
    THEN LET correlation_id == script[i].cid
             closed == maybe_emit_correlation_id_command(kind, FALSE,
                            em.last_correlation_id, em.text)
             marked ==
                IF em.last_correlation_id # correlation_id
                THEN IF em.last_correlation_id = None
                     THEN maybe_emit_correlation_id_command(kind, TRUE,
                             correlation_id, closed)
                     ELSE closed
                ELSE em.text
         IN  [last_correlation_id |-> correlation_id,
              text |-> Append(marked, <<script[i].text>>)]
    ELSE em

\* The closure of generate_debugger_script's walk, on leaf i of the clone:
\* em is [last_correlation_id, text]
emit_command(kind, script, em, i) ==
    IF script[i].kind = "Exec"
    THEN LET correlation_id == script[i].cid
             marked ==
                IF em.last_correlation_id # correlation_id
                THEN maybe_emit_correlation_id_command(kind, TRUE, correlation_id,
                        maybe_emit_correlation_id_command(kind, FALSE,
                            em.last_correlation_id, em.text))
                ELSE em.text
         IN  [last_correlation_id |-> correlation_id,
              text |-> Append(marked, <<script[i].text>>)]
    ELSE em

RECURSIVE emit_commands(_, _, _, _)
emit_commands(kind, script, em, i) ==
    IF i > Len(script) THEN em
    ELSE emit_commands(kind, script, emit_command(kind, script, em, i), i + 1)

\* generate_debugger_script without the closing call after the walk: the
\* last span stays open
generate_debugger_script_unclosed(kind, prelude, breakpoints, leaves) ==
    LET pre == emit_script_prelude(kind, prelude, <<>>)
        bps == IF pre.panic # "none" THEN pre
               ELSE emit_breakpoints(kind, breakpoints, pre.text)
        assigned == assign_correlation_ids(leaves)
        em == emit_commands(kind, assigned.script,
                            [last_correlation_id |-> None, text |-> bps.text], 1)
    IN  IF bps.panic # "none"
        THEN [panic |-> bps.panic, text |-> bps.text, script |-> leaves,
              warnings |-> <<>>]
        ELSE [panic |-> assigned.panic,
              text |-> IF assigned.panic # "none" THEN bps.text ELSE em.text,
              script |-> assigned.script,
              warnings |-> assigned.warnings]

\* generate_debugger_script(debugger, test_definition): the script text, the
\* clone it assigned identifiers to, and whether a panic ended it
generate_debugger_script(kind, prelude, breakpoints, leaves) ==
    LET pre == emit_script_prelude(kind, prelude, <<>>)
        bps == IF pre.panic # "none" THEN pre
               ELSE emit_breakpoints(kind, breakpoints, pre.text)
        assigned == assign_correlation_ids(leaves)
        em == emit_commands(kind, assigned.script,
                            [last_correlation_id |-> None, text |-> bps.text], 1)
    IN  IF bps.panic # "none"
        THEN [panic |-> bps.panic, text |-> bps.text, script |-> leaves,
              warnings |-> <<>>]
        ELSE IF assigned.panic # "none"
        THEN [panic |-> assigned.panic, text |-> bps.text, script |-> assigned.script,
              warnings |-> assigned.warnings]
        ELSE [panic |-> "none",
              text |-> maybe_emit_correlation_id_command(
                          kind, FALSE, em.last_correlation_id, em.text),
              script |-> assigned.script,
              warnings |-> assigned.warnings]

\* create_mock_debugger_output: the script file read back as stdout
create_mock_debugger_output(script_text) ==
    [stdout |-> script_text, stderr |-> "", exit_status |-> "Success"]

\* ---------------------------------------------------- the Output Partitioner

\* BTreeMap::insert
MapInsert(m, k, v) == [x \in DOMAIN m \cup {k} |-> IF x = k THEN v ELSE m[x]]

\* partition_line with the span test of its last branch dropped: lines
\* outside every span are collected too
partition_line_collects_all(pt, line) ==
    IF StartsWith(line, CORRELATION_ID_BEGIN_MARKER)
    THEN IF IsSome(pt.current_id)
         THEN [pt EXCEPT !.outcome = "Errored"]
         ELSE IF pt.current_lines # <<>>
         THEN [pt EXCEPT !.outcome = "panic_assert_lines_empty"]
         ELSE IF extract_correlation_id(line) = None
         THEN [pt EXCEPT !.outcome = "panic_unwrap_parse"]
         ELSE [pt EXCEPT !.current_id = extract_correlation_id(line)]
    ELSE IF StartsWith(line, CORRELATION_ID_END_MARKER)
    THEN IF IsSome(pt.current_id)
         THEN [pt EXCEPT
                 !.result = MapInsert(@, Unwrap(pt.current_id), pt.current_lines),
                 !.current_lines = <<>>,
                 !.current_id = None]
         ELSE [pt EXCEPT !.outcome = "Errored"]
    ELSE [pt EXCEPT !.current_lines = Append(@, line)]

\* partition_line that keeps the begin-marker line as the first line of the
\* span it opens
partition_line_keeps_marker(pt, line) ==
    IF StartsWith(line, CORRELATION_ID_BEGIN_MARKER)
    THEN IF IsSome(pt.current_id)
         THEN [pt EXCEPT !.outcome = "Errored"]
         ELSE IF pt.current_lines # <<>>
         THEN [pt EXCEPT !.outcome = "panic_assert_lines_empty"]
         ELSE IF extract_correlation_id(line) = None
         THEN [pt EXCEPT !.outcome = "panic_unwrap_parse"]
         ELSE [pt EXCEPT !.current_id = extract_correlation_id(line),
                         !.current_lines = <<line>>]
    ELSE IF StartsWith(line, CORRELATION_ID_END_MARKER)
    THEN IF IsSome(pt.current_id)
         THEN [pt EXCEPT
                 !.result = MapInsert(@, Unwrap(pt.current_id), pt.current_lines),
                 !.current_lines = <<>>,
                 !.current_id = None]
         ELSE [pt EXCEPT !.outcome = "Errored"]
    ELSE IF IsSome(pt.current_id)
    THEN [pt EXCEPT !.current_lines = Append(@, line)]
    ELSE pt

\* partition_line without `current_lines = vec![]` at an end marker: the
\* lines of a closed span stay in the buffer
partition_line_keeps_lines(pt, line) ==
    IF StartsWith(line, CORRELATION_ID_BEGIN_MARKER)
    THEN IF IsSome(pt.current_id)
         THEN [pt EXCEPT !.outcome = "Errored"]
         ELSE IF pt.current_lines # <<>>
         THEN [pt EXCEPT !.outcome = "panic_assert_lines_empty"]
         ELSE IF extract_correlation_id(line) = None
         THEN [pt EXCEPT !.outcome = "panic_unwrap_parse"]
         ELSE [pt EXCEPT !.current_id = extract_correlation_id(line)]
    ELSE IF StartsWith(line, CORRELATION_ID_END_MARKER)
    THEN IF IsSome(pt.current_id)
         THEN [pt EXCEPT
                 !.result = MapInsert(@, Unwrap(pt.current_id), pt.current_lines),
                 !.current_id = None]
         ELSE [pt EXCEPT !.outcome = "Errored"]
    ELSE IF IsSome(pt.current_id)
    THEN [pt EXCEPT !.current_lines = Append(@, line)]
    ELSE pt

\* The body of the partitioner's loop on one stdout line; pt is
\* [current_id, current_lines, result, outcome]
partition_line(pt, line) ==
    IF StartsWith(line, CORRELATION_ID_BEGIN_MARKER)
    THEN IF IsSome(pt.current_id)
         THEN [pt EXCEPT !.outcome = "Errored"]   \* malformed debugger output
         ELSE IF pt.current_lines # <<>>
         THEN [pt EXCEPT !.outcome = "panic_assert_lines_empty"]
         ELSE IF extract_correlation_id(line) = None
         THEN [pt EXCEPT !.outcome = "panic_unwrap_parse"]
         ELSE [pt EXCEPT !.current_id = extract_correlation_id(line)]
    ELSE IF StartsWith(line, CORRELATION_ID_END_MARKER)
    THEN IF IsSome(pt.current_id)
         THEN [pt EXCEPT
                 !.result = MapInsert(@, Unwrap(pt.current_id), pt.current_lines),
                 !.current_lines = <<>>,
                 !.current_id = None]
         ELSE [pt EXCEPT !.outcome = "Errored"]   \* malformed debugger output
    ELSE IF IsSome(pt.current_id)
    THEN [pt EXCEPT !.current_lines = Append(@, line)]
    ELSE pt

RECURSIVE partition_lines(_, _, _)
partition_lines(pt, stdout, i) ==
    IF i > Len(stdout) \/ pt.outcome # "Ok" THEN pt
    ELSE partition_lines(partition_line(pt, stdout[i]), stdout, i + 1)

\* The partitioner's locals before its loop
NoPartition ==
    [current_id |-> None, current_lines |-> <<>>, result |-> <<>>, outcome |-> "Ok"]

\* debugger_output_by_correlation_id: outcome "Ok" with the map in .result,
\* "Errored" for Err(TestResult Errored), or a panic
debugger_output_by_correlation_id(debugger_output) ==
    partition_lines(NoPartition, debugger_output.stdout, 1)

\* ------------------------------------------------ the Matcher / Verdict Builder

\* Pairs <<pattern, token>> where the pattern occurs in the token
Occurs ==
    {<<"abc", "abc">>, <<"abc", "print abc">>, <<"xyz", "xyz">>, <<"xyz", "print xyz">>}

\* check.check(output_line): the check's predicate over one line
CheckMatches(pattern, line) == \E i \in DOMAIN line : <<pattern, line[i]>> \in Occurs

NoMessage == [what |-> "", expected |-> "", lines |-> <<>>]

\* A TestResult's status; Failed carries its message and the DebuggerOutput
TestResult(status, message, output) ==
    [status |-> status, message |-> message, output |-> output]

Passed == TestResult("Passed", NoMessage, None)
Errored == TestResult("Errored", NoMessage, None)
Panicked(why) == TestResult("Panic", [NoMessage EXCEPT !.what = why], None)

RECURSIVE collect_checks(_, _, _)
\* The walk that fills checks_by_correlation_id; cid.unwrap() panics on an
\* unset slot.  cc is [map, panic].
collect_checks(script, cc, i) ==
    IF i > Len(script) \/ cc.panic THEN cc
    ELSE IF script[i].kind \in {"Check", "CheckUnorderedBlock"}
    THEN IF script[i].cid = None
         THEN [cc EXCEPT !.panic = TRUE]
         ELSE LET cid == Unwrap(script[i].cid)
                  sofar == IF cid \in DOMAIN cc.map THEN cc.map[cid] ELSE <<>>
              IN  collect_checks(script,
                     [cc EXCEPT !.map = MapInsert(@, cid, Append(sofar, script[i]))],
                     i + 1)
    ELSE collect_checks(script, cc, i + 1)

RECURSIVE match_lines(_, _, _, _)
\* The inner loop over one span's output lines; mt is [check_index, panic].
\* (Its debug_assert_eq! holds: checks are filed under their own identifier.)
match_lines(checks, output, mt, j) ==
    IF j > Len(output) \/ mt.panic THEN mt
    ELSE IF checks[mt.check_index + 1].kind = "Check"
    THEN IF CheckMatches(checks[mt.check_index + 1].text, output[j])
         THEN IF mt.check_index + 1 = Len(checks)
              THEN [mt EXCEPT !.check_index = @ + 1]   \* break
              ELSE match_lines(checks, output, [mt EXCEPT !.check_index = @ + 1], j + 1)
         ELSE match_lines(checks, output, mt, j + 1)
    ELSE [mt EXCEPT !.panic = TRUE]   \* CheckUnorderedBlock: todo!()

\* The lines a failure message lists: those that contain no marker
message_lines(output) ==
    SelectSeq(output, LAMBDA x : ~Contains(x, CORRELATION_ID_BEGIN_MARKER)
                                 /\ ~Contains(x, CORRELATION_ID_END_MARKER))

\* check_correlation_id that approximates an unordered block as an ordered
\* check: a block that is not found is reported like any check
check_correlation_id_block_as_ordered(cid, checks, by_id, debugger_output) ==
    IF cid \notin DOMAIN by_id
    THEN TestResult("Failed",
            [what |-> "check failed", expected |-> checks[1].text, lines |-> <<>>],
            Some(debugger_output))
    ELSE LET output == by_id[cid]
             mt == match_lines(checks, output, [check_index |-> 0, panic |-> FALSE], 1)
         IN  IF mt.check_index # Len(checks)
             THEN TestResult("Failed",
                     [what |-> "Could not find",
                      expected |-> checks[mt.check_index + 1].text,
                      lines |-> message_lines(output)],
                     Some(debugger_output))
             ELSE TestResult("continue", NoMessage, None)

\* The body of the loop over checks_by_correlation_id for one identifier:
\* "continue" when its checks are all found, else the TestResult returned
check_correlation_id(cid, checks, by_id, debugger_output) ==
    IF cid \notin DOMAIN by_id
    THEN TestResult("Failed",
            [what |-> "check failed", expected |-> checks[1].text, lines |-> <<>>],
            Some(debugger_output))
    ELSE LET output == by_id[cid]
             mt == match_lines(checks, output, [check_index |-> 0, panic |-> FALSE], 1)
         IN  IF mt.panic THEN Panicked("todo")
             ELSE IF mt.check_index # Len(checks)
             THEN IF checks[mt.check_index + 1].kind = "Check"
                  THEN TestResult("Failed",
                          [what |-> "Could not find",
                           expected |-> checks[mt.check_index + 1].text,
                           lines |-> message_lines(output)],
                          Some(debugger_output))
                  ELSE Panicked("todo")
             ELSE TestResult("continue", NoMessage, None)

RECURSIVE check_all(_, _, _, _)
\* for (cid, checks) in checks_by_correlation_id, in ascending key order
check_all(todo, checks_by_id, by_id, debugger_output) ==
    IF todo = {} THEN Passed
    ELSE LET cid == CHOOSE c \in todo : \A d \in todo : c <= d
             r == check_correlation_id(cid, checks_by_id[cid], by_id, debugger_output)
         IN  IF r.status # "continue" THEN r
             ELSE check_all(todo \ {cid}, checks_by_id, by_id, debugger_output)

\* check_assigned that takes a failing exit status of the debugger for
\* malformed output
check_assigned_heeds_exit_status(assigned, debugger_output) ==
    LET cc == collect_checks(assigned.script, [map |-> <<>>, panic |-> FALSE], 1)
        pt == debugger_output_by_correlation_id(debugger_output)
    IN  IF assigned.panic # "none" THEN Panicked(assigned.panic)
        ELSE IF cc.panic THEN Panicked("unwrap_cid")
        ELSE IF debugger_output.exit_status = "Failure" THEN Errored
        ELSE IF pt.outcome = "Errored" THEN Errored
        ELSE IF pt.outcome # "Ok" THEN Panicked(pt.outcome)
        ELSE check_all(DOMAIN cc.map, cc.map, pt.result, debugger_output)

\* process_debugger_output after its assign_correlation_ids call: the checks
\* are collected, stdout is partitioned, and each identifier's checks are
\* matched
check_assigned(assigned, debugger_output) ==
    LET cc == collect_checks(assigned.script, [map |-> <<>>, panic |-> FALSE], 1)
        pt == debugger_output_by_correlation_id(debugger_output)
    IN  IF assigned.panic # "none" THEN Panicked(assigned.panic)
        ELSE IF cc.panic THEN Panicked("unwrap_cid")
        ELSE IF pt.outcome = "Errored" THEN Errored
        ELSE IF pt.outcome # "Ok" THEN Panicked(pt.outcome)
        ELSE check_all(DOMAIN cc.map, cc.map, pt.result, debugger_output)

\* process_debugger_output(debugger, test_definition, debugger_output): the
\* TestResult returned (status "Panic" where the call panics), with the clone
\* it assigned identifiers to and the warnings of that pass
process_debugger_output(leaves, debugger_output) ==
    LET assigned == assign_correlation_ids(leaves)
        test_result == check_assigned(assigned, debugger_output)
    IN  [test_result |-> test_result,
         script |-> assigned.script,
         warnings |-> assigned.warnings]

\* ------------------------------------------------------- version extraction

\* A version line is a sequence of characters.  A regex is a sequence of
\* items, each a character class that matches one character, or one or more
\* (greedy) when .plus; capture group 1 is the last item.
Lit(c) == [class |-> "lit", ch |-> c, plus |-> FALSE]
Lits(text) == [i \in DOMAIN text |-> Lit(text[i])]
SpacePlus == [class |-> "space", ch |-> "", plus |-> TRUE]       \* \s+
AnyPlus == [class |-> "any", ch |-> "", plus |-> TRUE]           \* .+
DigitDotPlus == [class |-> "digitdot", ch |-> "", plus |-> TRUE] \* [\d\.]+

InClass(c, item) ==
    CASE item.class = "lit" -> c = item.ch
      [] item.class = "space" -> c \in {" ", "\t"}
      [] item.class = "any" -> c # "\n"
      [] item.class = "digitdot" -> c \in Range(Digits) \cup {"."}

\* GNU\s+gdb\s+(.+) : the regex without the parenthesised build name
GDB_REGEX_unparenthesised ==
    Lits(<<"G", "N", "U">>) \o <<SpacePlus>> \o Lits(<<"g", "d", "b">>) \o <<SpacePlus, AnyPlus>>

\* GNU\s+gdb\s+\(.+\)\s+(.+)
GDB_REGEX ==
    Lits(<<"G", "N", "U">>) \o <<SpacePlus>> \o Lits(<<"g", "d", "b">>)
    \o <<SpacePlus, Lit("("), AnyPlus, Lit(")"), SpacePlus, AnyPlus>>

\* cdb\s+version\s+([\d\.]+)
CDB_REGEX ==
    Lits(<<"c", "d", "b">>) \o <<SpacePlus>> \o Lits(<<"v", "e", "r", "s", "i", "o", "n">>) \o <<SpacePlus, DigitDotPlus>>

RECURSIVE RunLength(_, _, _)
\* How many characters from pos on are in the item's class
RunLength(item, line, pos) ==
    IF pos > Len(line) \/ ~InClass(line[pos], item) THEN 0
    ELSE 1 + RunLength(item, line, pos + 1)

RECURSIVE MatchAt(_, _, _, _)
RECURSIVE MatchRun(_, _, _, _, _)
\* The preferred match of items k.. at pos: the positions where the items
\* start, then the position after the match; <<>> when there is none
MatchAt(regex, k, line, pos) ==
    IF k > Len(regex) THEN <<pos>>
    ELSE IF regex[k].plus
    THEN MatchRun(regex, k, line, pos, RunLength(regex[k], line, pos))
    ELSE IF pos <= Len(line) /\ InClass(line[pos], regex[k])
    THEN LET rest == MatchAt(regex, k + 1, line, pos + 1)
         IN  IF rest = <<>> THEN <<>> ELSE <<pos>> \o rest
    ELSE <<>>

\* A greedy item: the longest run first, then shorter ones
MatchRun(regex, k, line, pos, n) ==
    IF n = 0 THEN <<>>
    ELSE LET rest == MatchAt(regex, k + 1, line, pos + n)
         IN  IF rest = <<>> THEN MatchRun(regex, k, line, pos, n - 1)
             ELSE <<pos>> \o rest

RECURSIVE Captures(_, _, _)
\* Regex::captures: the leftmost match, searched from position s on
Captures(regex, line, s) ==
    IF s > Len(line) + 1 THEN None
    ELSE LET m == MatchAt(regex, 1, line, s)
         IN  IF m = <<>> THEN Captures(regex, line, s + 1) ELSE Some(m)

\* captures.map(|captures| captures.get(1).unwrap().as_str())
Group1(regex, line) ==
    LET captures == Captures(regex, line, 1)
    IN  IF captures = None THEN None
        ELSE LET m == Unwrap(captures)
             IN  Some(SubSeq(line, m[Len(regex)], m[Len(regex) + 1] - 1))

extract_gdb_version(line) == Group1(GDB_REGEX, line)

extract_cdb_version(line) == Group1(CDB_REGEX, line)

\* ---------------------------------------------------------- the state machine

VARIABLES
    kind,             \* debugger.kind
    prelude,          \* debugger.prelude
    breakpoints,      \* test_definition.breakpoints (line indexes)
    leaves,           \* test_definition.script, filtered; never written
    pc,               \* Start, Running, Partitioning, Finished; SpawnFailed,
                      \* GenerateAborted, ProcessAborted; Assigning
    debugger_script,  \* the text returned by generate_debugger_script
    synth_script,     \* the clone written during synthesis
    debugger_output,  \* Option<DebuggerOutput>
    verify_script,    \* the clone written during verification
    test_result,      \* Option<TestResult>
    log,              \* warn! records, as <<pass, leaf index>>
    walk,             \* assign_correlation_ids in progress: its clone and locals
    position,         \* the leaf its walk visits next (0: no walk)
    runs,             \* concurrent pipeline runs: the locals of each
    part,             \* debugger_output_by_correlation_id in progress
    version_output,   \* a line of a debugger's --version output
    version           \* what the version extractors returned for it

vars == <<kind, prelude, breakpoints, leaves, pc, debugger_script, synth_script,
          debugger_output, verify_script, test_result, log, walk, position,
          runs, part, version_output, version>>

Commands == {"print abc", "print xyz"}
Patterns == {"abc", "xyz"}

\* The leaves a directive sequence is made of
Leaves ==
    {Statement("Exec", c) : c \in Commands}
    \cup {Statement("Check", p) : p \in Patterns}
    \cup {Statement("CheckUnorderedBlock", "block")}

\* The leaves of the output specification's directive sequences
OutLeaves ==
    {Statement("Exec", "print abc"), Statement("CheckUnorderedBlock", "block")}
    \cup {Statement("Check", p) : p \in Patterns}

\* The lines a debugger may print: marker lines (one with an identifier that
\* is no number) and ordinary lines
OutLines ==
    {<<CORRELATION_ID_BEGIN_MARKER, "0">>, <<CORRELATION_ID_BEGIN_MARKER, "1">>,
     <<CORRELATION_ID_BEGIN_MARKER, "x">>,
     <<CORRELATION_ID_END_MARKER, "0">>, <<CORRELATION_ID_END_MARKER, "1">>,
     <<"noise">>, <<"abc">>, <<"xyz">>}

PreludeCommands == {<<"set pagination off">>}

Tag(pass, warnings) == [i \in DOMAIN warnings |-> <<pass, warnings[i]>>]

\* A test definition and a Debugger Instance, before the pipeline starts
Init ==
    /\ kind \in DebuggerKind
    /\ prelude \in SeqsUpTo(PreludeCommands, MaxPrelude)
    /\ breakpoints \in SeqsUpTo({0}, MaxBreakpoints)
    /\ leaves \in SeqsUpTo(Leaves, MaxLeaves)
    /\ pc = "Start"
    /\ debugger_script = <<>>
    /\ synth_script = <<>>
    /\ debugger_output = None
    /\ verify_script = <<>>
    /\ test_result = None
    /\ log = <<>>
    /\ walk = AssignInit(<<>>)
    /\ position = 0
    /\ runs = <<>>
    /\ part = NoPartition
    /\ version_output = <<>>
    /\ version = <<>>

\* generate_debugger_script(debugger, test_definition)
Generate ==
    /\ pc = "Start"
    /\ LET g == generate_debugger_script(kind, prelude, breakpoints, leaves)
       IN  /\ pc' = IF g.panic = "none" THEN "Running" ELSE "Aborted"
           /\ debugger_script' = g.text
           /\ synth_script' = g.script
           /\ log' = log \o Tag("synthesis", g.warnings)
    /\ UNCHANGED <<kind, prelude, breakpoints, leaves, debugger_output,
                   verify_script, test_result, walk, position,
                   runs, part, version_output, version>>

\* DebuggerKind::run for Mock: the script file is echoed back
RunMock ==
    /\ pc = "Running"
    /\ kind = "Mock"
    /\ debugger_output' = Some(create_mock_debugger_output(debugger_script))
    /\ pc' = "Partitioning"
    /\ UNCHANGED <<kind, prelude, breakpoints, leaves, debugger_script,
                   synth_script, verify_script, test_result, log, walk, position,
                   runs, part, version_output, version>>

\* process_debugger_output(debugger, test_definition, debugger_output)
Process ==
    /\ pc = "Partitioning"
    /\ LET p == process_debugger_output(leaves, Unwrap(debugger_output))
       IN  /\ test_result' = Some(p.test_result)
           /\ verify_script' = p.script
           /\ log' = log \o Tag("verification", p.warnings)
           /\ pc' = IF p.test_result.status = "Panic" THEN "ProcessAborted"
                    ELSE "Finished"
    /\ UNCHANGED <<kind, prelude, breakpoints, leaves, debugger_script,
                   synth_script, debugger_output, walk, position,
                   runs, part, version_output, version>>

\* What a spawned debugger returns in the pipeline specification: it fails
\* at once and prints nothing, or prints a banner and succeeds.  (OutSpec
\* gives process_debugger_output every stdout.)
RealRuns ==
    {[stdout |-> <<>>, stderr |-> "error", exit_status |-> "Failure"],
     [stdout |-> <<<<"noise">>>>, stderr |-> "", exit_status |-> "Success"]}

\* DebuggerKind::run for Gdb and Cdb: the debugger process is spawned and
\* its output captured; or the spawn fails and the error propagates to the
\* caller
RunReal ==
    /\ pc = "Running"
    /\ kind \in {"Gdb", "Cdb"}
    /\ \/ /\ \E out \in RealRuns : debugger_output' = Some(out)
          /\ pc' = "Partitioning"
       \/ /\ debugger_output' = None
          /\ pc' = "SpawnFailed"
    /\ UNCHANGED <<kind, prelude, breakpoints, leaves, debugger_script,
                   synth_script, verify_script, test_result, log, walk, position,
                   runs, part, version_output, version>>

Next == Generate \/ RunMock \/ RunReal \/ Process

\* One pipeline: synthesize, run the mock backend, partition and match
Spec == Init /\ [][Next]_vars

\* A captured DebuggerOutput of a real debugger, with any stdout
OutInit ==
    /\ kind = "Gdb"
    /\ prelude = <<>>
    /\ breakpoints = <<>>
    /\ leaves \in SeqsUpTo(OutLeaves, MaxOutLeaves)
    /\ pc = "Partitioning"
    /\ debugger_script = <<>>
    /\ synth_script = <<>>
    /\ \E out \in SeqsUpTo(OutLines, MaxOut) :
          debugger_output =
              Some([stdout |-> out, stderr |-> "", exit_status |-> "Success"])
    /\ verify_script = <<>>
    /\ test_result = None
    /\ log = <<>>
    /\ walk = AssignInit(<<>>)
    /\ position = 0
    /\ runs = <<>>
    /\ part = NoPartition
    /\ version_output = <<>>
    /\ version = <<>>

OutNext == Process

\* process_debugger_output applied to any directive sequence and any output
OutSpec == OutInit /\ [][OutNext]_vars

\* The leaves of the identifier-assignment specification, one per kind the
\* visitor tells apart
AssignLeaves ==
    {Statement("Exec", "print abc"), Statement("Check", "abc"),
     Statement("CheckUnorderedBlock", "block"), Statement("IgnoreTest", "")}

\* assign_correlation_ids is entered with a fresh clone of the sequence
AssignSpecInit ==
    /\ kind = "Mock"
    /\ prelude = <<>>
    /\ breakpoints = <<>>
    /\ leaves \in SeqsUpTo(AssignLeaves, MaxAssignLeaves)
    /\ pc = "Assigning"
    /\ debugger_script = <<>>
    /\ synth_script = <<>>
    /\ debugger_output = None
    /\ verify_script = <<>>
    /\ test_result = None
    /\ log = <<>>
    /\ walk = AssignInit(leaves)
    /\ position = 1
    /\ runs = <<>>
    /\ part = NoPartition
    /\ version_output = <<>>
    /\ version = <<>>

\* The walk calls the visitor on the next leaf
AssignVisit ==
    /\ pc = "Assigning"
    /\ position <= Len(leaves)
    /\ walk.panic = "none"
    /\ walk' = assign_visit(walk, position)
    /\ position' = position + 1
    /\ UNCHANGED <<kind, prelude, breakpoints, leaves, pc, debugger_script,
                   synth_script, debugger_output, verify_script, test_result, log,
                   runs, part, version_output, version>>

AssignNext == AssignVisit

\* One run of assign_correlation_ids, leaf by leaf
AssignSpec == AssignSpecInit /\ [][AssignNext]_vars

\* ------------------------------------------- the command-emission contracts

\* DebuggerKind::run: the outcomes of one call.  Mock reads the script file
\* back; Gdb and Cdb spawn the debugger (the spawn may fail); Lldb is todo!()
run(debugger_kind, script_text) ==
    CASE debugger_kind = "Mock" ->
           {[status |-> "Ok", output |-> Some(create_mock_debugger_output(script_text))]}
      [] debugger_kind \in {"Gdb", "Cdb"} ->
           {[status |-> "Ok", output |-> Some(out)] : out \in RealRuns}
           \cup {[status |-> "Err", output |-> None]}
      [] debugger_kind = "Lldb" -> {[status |-> "todo", output |-> None]}

\* The identifiers a marker command is asked to emit
MarkerIds == {None, Some(0), Some(1)}

\* The record of one call: the contract, its marker arguments (if any) and
\* the script buffer before the call
Call(contract, begin, correlation_id) ==
    [contract |-> contract, begin |-> begin, correlation_id |-> correlation_id,
     before |-> debugger_script]

\* A Debugger Instance of any kind and a script buffer, before one call
EmitInit ==
    /\ kind \in DebuggerKind
    /\ prelude \in SeqsUpTo(PreludeCommands, MaxPrelude)
    /\ breakpoints \in SeqsUpTo({0}, MaxBreakpoints)
    /\ leaves = <<>>
    /\ pc = "Calling"
    /\ debugger_script \in {<<>>, <<<<"print abc">>>>}
    /\ synth_script = <<>>
    /\ debugger_output = None
    /\ verify_script = <<>>
    /\ test_result = None
    /\ log = <<>>
    /\ walk = AssignInit(<<>>)
    /\ position = 0
    /\ runs = <<>>
    /\ part = NoPartition
    /\ version_output = <<>>
    /\ version = <<>>

\* debugger.emit_script_prelude(&mut script)
CallEmitScriptPrelude ==
    /\ pc = "Calling"
    /\ LET r == emit_script_prelude(kind, prelude, debugger_script)
       IN  /\ debugger_script' = r.text
           /\ pc' = IF r.panic = "none" THEN "Returned" ELSE "Unimplemented"
    /\ log' = <<Call("emit_script_prelude", FALSE, None)>>
    /\ UNCHANGED <<kind, prelude, breakpoints, leaves, synth_script,
                   debugger_output, verify_script, test_result, walk, position,
                   runs, part, version_output, version>>

\* debugger.emit_breakpoints(test_definition, &mut script)
CallEmitBreakpoints ==
    /\ pc = "Calling"
    /\ LET r == emit_breakpoints(kind, breakpoints, debugger_script)
       IN  /\ debugger_script' = r.text
           /\ pc' = IF r.panic = "none" THEN "Returned" ELSE "Unimplemented"
    /\ log' = <<Call("emit_breakpoints", FALSE, None)>>
    /\ UNCHANGED <<kind, prelude, breakpoints, leaves, synth_script,
                   debugger_output, verify_script, test_result, walk, position,
                   runs, part, version_output, version>>

\* debugger.maybe_emit_correlation_id_command(begin, correlation_id, &mut script)
CallEmitCorrelationId ==
    /\ pc = "Calling"
    /\ \E begin \in BOOLEAN, correlation_id \in MarkerIds :
          /\ debugger_script' = maybe_emit_correlation_id_command(
                                    kind, begin, correlation_id, debugger_script)
          /\ log' = <<Call("maybe_emit_correlation_id_command", begin,
                           correlation_id)>>
    /\ pc' = "Returned"
    /\ UNCHANGED <<kind, prelude, breakpoints, leaves, synth_script,
                   debugger_output, verify_script, test_result, walk, position,
                   runs, part, version_output, version>>

\* debugger.kind.run(executable, script_file_path, debugee)
CallRun ==
    /\ pc = "Calling"
    /\ \E r \in run(kind, debugger_script) :
          /\ debugger_output' = r.output
          /\ pc' = CASE r.status = "Ok" -> "Returned"
                     [] r.status = "Err" -> "SpawnFailed"
                     [] r.status = "todo" -> "Unimplemented"
    /\ log' = <<Call("run", FALSE, None)>>
    /\ UNCHANGED <<kind, prelude, breakpoints, leaves, debugger_script,
                   synth_script, verify_script, test_result, walk, position,
                   runs, part, version_output, version>>

EmitNext ==
    CallEmitScriptPrelude \/ CallEmitBreakpoints \/ CallEmitCorrelationId \/ CallRun

\* One call of one command-emission contract, for every backend kind
EmitSpec == EmitInit /\ [][EmitNext]_vars

\* ------------------------------------------------- version lines, extracted

\* The separators, build names and versions version lines are made of
Separators == {<<" ">>, <<" ", " ">>, <<"\t">>}
BuildNames == {<<"(", "G", "D", "B", ")">>,
               <<"(", "U", "b", "u", "n", "t", "u", " ", "9", ".", "2", "-", "0", "u", "b", "u", "n", "t", "u", "1", "~", "2", "0", ".", "0", "4", ")">>}
Versions == {<<"8", ".", "2", ".", "1">>, <<"9", ".", "2">>, <<"1", "0", ".", "2">>,
             <<"1", "0", ".", "0", ".", "2", "1", "3", "4", "9", ".", "1", "0", "0", "4">>}

GdbLine(sep, build, v) == <<"G", "N", "U">> \o sep \o <<"g", "d", "b">> \o sep \o build \o sep \o v
CdbLine(sep, v) == <<"c", "d", "b">> \o sep \o <<"v", "e", "r", "s", "i", "o", "n">> \o sep \o v

VersionLines ==
    {GdbLine(sep, build, v) : sep \in Separators, build \in BuildNames, v \in Versions}
    \cup {CdbLine(sep, v) : sep \in Separators, v \in Versions}

\* One line of a debugger's version output, before an extractor is applied
VersionInit ==
    /\ kind = "Mock"
    /\ prelude = <<>>
    /\ breakpoints = <<>>
    /\ leaves = <<>>
    /\ pc = "Extracting"
    /\ debugger_script = <<>>
    /\ synth_script = <<>>
    /\ debugger_output = None
    /\ verify_script = <<>>
    /\ test_result = None
    /\ log = <<>>
    /\ walk = AssignInit(<<>>)
    /\ position = 0
    /\ runs = <<>>
    /\ part = NoPartition
    /\ version_output \in VersionLines
    /\ version = <<>>

\* extract_gdb_version(line)
ExtractGdbVersion ==
    /\ pc = "Extracting"
    /\ version' = [by |-> "extract_gdb_version",
                   value |-> extract_gdb_version(version_output)]
    /\ pc' = "Extracted"
    /\ UNCHANGED <<kind, prelude, breakpoints, leaves, debugger_script,
                   synth_script, debugger_output, verify_script, test_result, log,
                   walk, position, runs, part, version_output>>

\* extract_cdb_version(line)
ExtractCdbVersion ==
    /\ pc = "Extracting"
    /\ version' = [by |-> "extract_cdb_version",
                   value |-> extract_cdb_version(version_output)]
    /\ pc' = "Extracted"
    /\ UNCHANGED <<kind, prelude, breakpoints, leaves, debugger_script,
                   synth_script, debugger_output, verify_script, test_result, log,
                   walk, position, runs, part, version_output>>

\* The body of Debugger::infer_from_command's loop over the output lines:
\* the Gdb extractor is tried first, then the Cdb extractor
InferLine ==
    /\ pc = "Extracting"
    /\ LET gdb == extract_gdb_version(version_output)
           cdb == extract_cdb_version(version_output)
       IN  version' = IF gdb # None THEN [by |-> "Gdb", value |-> gdb]
                      ELSE IF cdb # None THEN [by |-> "Cdb", value |-> cdb]
                      ELSE [by |-> "next line", value |-> None]
    /\ pc' = "Extracted"
    /\ UNCHANGED <<kind, prelude, breakpoints, leaves, debugger_script,
                   synth_script, debugger_output, verify_script, test_result, log,
                   walk, position, runs, part, version_output>>

VersionNext == ExtractGdbVersion \/ ExtractCdbVersion \/ InferLine

\* The version extractors applied to one version line
VersionSpec == VersionInit /\ [][VersionNext]_vars

\* ------------------------------------------- the partitioner, line by line

\* debugger_output_by_correlation_id is entered with a captured stdout
PartitionInit ==
    /\ kind = "Gdb"
    /\ prelude = <<>>
    /\ breakpoints = <<>>
    /\ leaves = <<>>
    /\ pc = "PartitionLoop"
    /\ debugger_script = <<>>
    /\ synth_script = <<>>
    /\ \E out \in SeqsUpTo(OutLines, MaxPartOut) :
          debugger_output =
              Some([stdout |-> out, stderr |-> "", exit_status |-> "Success"])
    /\ verify_script = <<>>
    /\ test_result = None
    /\ log = <<>>
    /\ walk = AssignInit(<<>>)
    /\ position = 1
    /\ runs = <<>>
    /\ part = NoPartition
    /\ version_output = <<>>
    /\ version = <<>>

\* One iteration of the loop over debugger_output.stdout.lines()
PartitionStep ==
    /\ pc = "PartitionLoop"
    /\ position <= Len(Unwrap(debugger_output).stdout)
    /\ part.outcome = "Ok"
    /\ part' = partition_line(part, Unwrap(debugger_output).stdout[position])
    /\ position' = position + 1
    /\ UNCHANGED <<kind, prelude, breakpoints, leaves, pc, debugger_script,
                   synth_script, debugger_output, verify_script, test_result, log,
                   walk, runs, version_output, version>>

PartitionNext == PartitionStep

\* One run of debugger_output_by_correlation_id, line by line
PartitionSpec == PartitionInit /\ [][PartitionNext]_vars

\* ------------------------------------------------ concurrent pipeline runs

Runs == 1..MaxRuns

\* A run that takes no clone: its walk writes the shared original sequence
clone_target_original(r) == 0

\* `let mut script = test_definition.script.clone()`: the sequence a run's
\* walk writes is the run's own copy (0 stands for the shared original)
clone_target(r) == r

\* The sequence behind a target
ReadScript(t) == IF t = 0 THEN leaves ELSE runs[t].walk.script

\* The locals of one pipeline run: where it stands, the walk of its current
\* assign_correlation_ids call, the script text, the DebuggerOutput and the
\* TestResult
RunLocals ==
    [pc |-> "Start", walk |-> AssignInit(<<>>), position |-> 0, text |-> <<>>,
     output |-> None, result |-> None]

\* Two or more pipeline runs over one test definition and Debugger Instance
ConcInit ==
    /\ kind = "Mock"
    /\ prelude = <<>>
    /\ breakpoints = <<>>
    /\ leaves \in SeqsUpTo(Leaves, MaxConcLeaves)
    /\ pc = "Concurrent"
    /\ debugger_script = <<>>
    /\ synth_script = <<>>
    /\ debugger_output = None
    /\ verify_script = <<>>
    /\ test_result = None
    /\ log = <<>>
    /\ walk = AssignInit(<<>>)
    /\ position = 0
    /\ runs = [r \in Runs |-> RunLocals]
    /\ part = NoPartition
    /\ version_output = <<>>
    /\ version = <<>>

\* The sequence behind target t becomes `script`, and run r's locals `locals`
ConcWrite(r, t, script, locals) ==
    /\ leaves' = IF t = 0 THEN script ELSE leaves
    /\ runs' = [runs EXCEPT ![r] = locals]

\* generate_debugger_script up to its clone: prelude and breakpoints are
\* emitted, the sequence is cloned, and the walk is about to start
ConcSynthClone(r) ==
    /\ pc = "Concurrent"
    /\ runs[r].pc = "Start"
    /\ LET pre == emit_script_prelude(kind, prelude, <<>>)
           bps == IF pre.panic # "none" THEN pre
                  ELSE emit_breakpoints(kind, breakpoints, pre.text)
       IN  ConcWrite(r, clone_target(r), leaves,
               [runs[r] EXCEPT
                   !.pc = IF bps.panic # "none" THEN "SynthAborted"
                          ELSE "SynthAssigning",
                   !.text = bps.text,
                   !.walk = AssignInit(leaves),
                   !.position = 1])
    /\ UNCHANGED <<kind, prelude, breakpoints, pc, debugger_script, synth_script,
                   debugger_output, verify_script, test_result, log, walk,
                   position, part,
                   version_output, version>>

\* One call of the visitor, in either pass, on the sequence the run writes
ConcVisit(r) ==
    /\ pc = "Concurrent"
    /\ runs[r].pc \in {"SynthAssigning", "VerifyAssigning"}
    /\ runs[r].position <= Len(leaves)
    /\ LET t == clone_target(r)
           st == assign_visit([runs[r].walk EXCEPT !.script = ReadScript(t)],
                              runs[r].position)
       IN  ConcWrite(r, t, st.script,
               [runs[r] EXCEPT
                   !.walk = st,
                   !.position = @ + 1,
                   !.pc = IF st.panic = "none" THEN @
                          ELSE IF @ = "SynthAssigning" THEN "SynthAborted"
                          ELSE "VerifyAborted",
                   !.result = IF st.panic # "none" /\ runs[r].pc = "VerifyAssigning"
                              THEN Some(Panicked(st.panic)) ELSE @])
    /\ UNCHANGED <<kind, prelude, breakpoints, pc, debugger_script, synth_script,
                   debugger_output, verify_script, test_result, log, walk,
                   position, part,
                   version_output, version>>

\* generate_debugger_script after its assign_correlation_ids call: the
\* commands are emitted with their markers and the last span is closed
ConcEmit(r) ==
    /\ pc = "Concurrent"
    /\ runs[r].pc = "SynthAssigning"
    /\ runs[r].position > Len(leaves)
    /\ LET em == emit_commands(kind, ReadScript(clone_target(r)),
                     [last_correlation_id |-> None, text |-> runs[r].text], 1)
       IN  runs' = [runs EXCEPT
                       ![r].text = maybe_emit_correlation_id_command(
                                       kind, FALSE, em.last_correlation_id, em.text),
                       ![r].pc = "Running"]
    /\ UNCHANGED <<kind, prelude, breakpoints, leaves, pc, debugger_script,
                   synth_script, debugger_output, verify_script, test_result, log,
                   walk, position, part,
                   version_output, version>>

\* DebuggerKind::run for Mock
ConcRun(r) ==
    /\ pc = "Concurrent"
    /\ runs[r].pc = "Running"
    /\ runs' = [runs EXCEPT
                   ![r].output = Some(create_mock_debugger_output(runs[r].text)),
                   ![r].pc = "Partitioning"]
    /\ UNCHANGED <<kind, prelude, breakpoints, leaves, pc, debugger_script,
                   synth_script, debugger_output, verify_script, test_result, log,
                   walk, position, part,
                   version_output, version>>

\* process_debugger_output up to its clone
ConcVerifyClone(r) ==
    /\ pc = "Concurrent"
    /\ runs[r].pc = "Partitioning"
    /\ ConcWrite(r, clone_target(r), leaves,
           [runs[r] EXCEPT
               !.pc = "VerifyAssigning",
               !.walk = AssignInit(leaves),
               !.position = 1])
    /\ UNCHANGED <<kind, prelude, breakpoints, pc, debugger_script, synth_script,
                   debugger_output, verify_script, test_result, log, walk,
                   position, part,
                   version_output, version>>

\* process_debugger_output after its assign_correlation_ids call
ConcMatch(r) ==
    /\ pc = "Concurrent"
    /\ runs[r].pc = "VerifyAssigning"
    /\ runs[r].position > Len(leaves)
    /\ LET assigned == [runs[r].walk EXCEPT !.script = ReadScript(clone_target(r))]
           result == check_assigned(assigned, Unwrap(runs[r].output))
       IN  runs' = [runs EXCEPT
                       ![r].result = Some(result),
                       ![r].pc = IF result.status = "Panic" THEN "VerifyAborted"
                                 ELSE "Finished"]
    /\ UNCHANGED <<kind, prelude, breakpoints, leaves, pc, debugger_script,
                   synth_script, debugger_output, verify_script, test_result, log,
                   walk, position, part,
                   version_output, version>>

ConcNext ==
    \E r \in Runs :
        \/ ConcSynthClone(r)
        \/ ConcVisit(r)
        \/ ConcEmit(r)
        \/ ConcRun(r)
        \/ ConcVerifyClone(r)
        \/ ConcMatch(r)

\* Pipeline runs over one test definition, interleaved step by step
ConcSpec == ConcInit /\ [][ConcNext]_vars

\* ------------------------------------- two outputs with the same stdout

PairLeaves ==
    {Statement("Exec", "print abc"), Statement("Check", "abc"),
     Statement("Check", "xyz")}

PairLines ==
    {<<CORRELATION_ID_BEGIN_MARKER, "0">>, <<CORRELATION_ID_END_MARKER, "0">>,
     <<"abc">>, <<"noise">>}

\* What DebuggerKind::run captures besides stdout
StderrTexts == {"", "error"}
ExitStatuses == {"Success", "Failure"}

\* The two calls of process_debugger_output
PairCalls == {1, 2}

\* Two DebuggerOutputs with one stdout, which differ in stderr or in the
\* exit status, each about to be given to process_debugger_output
PairInit ==
    /\ kind = "Gdb"
    /\ prelude = <<>>
    /\ breakpoints = <<>>
    /\ leaves \in SeqsUpTo(PairLeaves, MaxPairLeaves)
    /\ pc = "Comparing"
    /\ debugger_script = <<>>
    /\ synth_script = <<>>
    /\ debugger_output = None
    /\ verify_script = <<>>
    /\ test_result = None
    /\ log = <<>>
    /\ walk = AssignInit(<<>>)
    /\ position = 0
    /\ \E out \in SeqsUpTo(PairLines, MaxPairOut),
          err \in [PairCalls -> StderrTexts],
          exit \in [PairCalls -> ExitStatuses] :
          /\ <<err[1], exit[1]>> # <<err[2], exit[2]>>
          /\ runs = [c \in PairCalls |->
                        [RunLocals EXCEPT
                            !.pc = "Partitioning",
                            !.output = Some([stdout |-> out, stderr |-> err[c],
                                             exit_status |-> exit[c]])]]
    /\ part = NoPartition
    /\ version_output = <<>>
    /\ version = <<>>

\* process_debugger_output(debugger, test_definition, debugger_output) on
\* the c-th output
PairProcess(c) ==
    /\ pc = "Comparing"
    /\ runs[c].pc = "Partitioning"
    /\ LET p == process_debugger_output(leaves, Unwrap(runs[c].output))
       IN  runs' = [runs EXCEPT
                       ![c].result = Some(p.test_result),
                       ![c].pc = IF p.test_result.status = "Panic"
                                 THEN "VerifyAborted" ELSE "Finished"]
    /\ UNCHANGED <<kind, prelude, breakpoints, leaves, pc, debugger_script,
                   synth_script, debugger_output, verify_script, test_result, log,
                   walk, position, part, version_output, version>>

PairNext == \E c \in PairCalls : PairProcess(c)

\* process_debugger_output applied to both outputs, in either order
PairSpec == PairInit /\ [][PairNext]_vars

\* ------------------------------------------------------------------ claims

IsCheck(leaf) == leaf.kind \in {"Check", "CheckUnorderedBlock"}
IsExec(leaf) == leaf.kind = "Exec"

\* The walk of assign_correlation_ids has ended, normally or by a panic
WalkEnded == pc = "Assigning" /\ (position > Len(leaves) \/ walk.panic # "none")

\* N >= 1 commands, each immediately followed by exactly one check
Alternating(ls) ==
    /\ Len(ls) >= 2
    /\ Len(ls) % 2 = 0
    /\ \A i \in DOMAIN ls : IF i % 2 = 1 THEN IsExec(ls[i]) ELSE IsCheck(ls[i])

\* C3: over N commands each followed by exactly one check, the walk ends
\* without a panic, the k-th command has identifier k-1 (so the N identifiers
\* are distinct and strictly increasing), and each check has the identifier
\* of the command just before it.
C3_AlternatingIdsIncrease ==
    (WalkEnded /\ Alternating(leaves)) =>
        /\ walk.panic = "none"
        /\ \A k \in 1..(Len(leaves) \div 2) :
              /\ walk.script[2 * k - 1].cid = Some(k - 1)
              /\ walk.script[2 * k].cid = Some(k - 1)

C3_Witness ==
    /\ WalkEnded
    /\ Alternating(leaves)
    /\ Len(leaves) = 6
    /\ walk.script[5].cid = Some(2)

\* C4: two visited commands with no check leaf between them carry the same
\* identifier, wherever in the sequence they are.
C4_RunSharesOneId ==
    pc = "Assigning" =>
        \A i, j \in 1..(position - 1) :
            (/\ i < j
             /\ IsExec(leaves[i])
             /\ IsExec(leaves[j])
             /\ \A k \in (i + 1)..(j - 1) : ~IsCheck(leaves[k]))
            => /\ IsSome(walk.script[i].cid)
               /\ walk.script[i].cid = walk.script[j].cid

\* a run of three commands that follows a checked command
C4_Witness ==
    /\ WalkEnded
    /\ Len(leaves) >= 5
    /\ IsExec(leaves[1]) /\ IsCheck(leaves[2])
    /\ \A i \in 3..5 : IsExec(leaves[i]) /\ walk.script[i].cid = Some(1)

\* generate_debugger_script has returned a script
Synthesized == pc \in {"Running", "Partitioning", "SpawnFailed", "Finished",
                       "ProcessAborted"}

\* The identifiers of the commands of a clone
ExecIds(script) ==
    {Unwrap(script[i].cid) : i \in {j \in DOMAIN script :
                                       IsExec(script[j]) /\ IsSome(script[j].cid)}}

\* The command lines of the commands of a clone that carry identifier id, in
\* document order
CommandLines(script, id) ==
    LET mine == SelectSeq(script, LAMBDA l : IsExec(l) /\ l.cid = Some(id))
    IN  [j \in 1..Len(mine) |-> <<mine[j].text>>]

\* C2: for the null backend, partitioning the text generate_debugger_script
\* returned succeeds, and yields a map whose keys are exactly the identifiers
\* of the commands and whose value for an identifier is exactly that
\* identifier's command lines, in emission order.
C2_PartitionInvertsSynthesis ==
    (Synthesized /\ kind = "Mock") =>
        LET pt == debugger_output_by_correlation_id(
                      create_mock_debugger_output(debugger_script))
        IN  /\ pt.outcome = "Ok"
            /\ DOMAIN pt.result = ExecIds(synth_script)
            /\ \A id \in ExecIds(synth_script) :
                  pt.result[id] = CommandLines(synth_script, id)

\* two spans, the first of two commands, behind a prelude and a breakpoint
C2_Witness ==
    /\ Synthesized
    /\ kind = "Mock"
    /\ prelude # <<>>
    /\ breakpoints # <<>>
    /\ ExecIds(synth_script) = {0, 1}
    /\ Len(CommandLines(synth_script, 0)) = 2

\* Marker commands of a script, of whatever backend
IsBegin(line) == Contains(line, CORRELATION_ID_BEGIN_MARKER)
IsEnd(line) == Contains(line, CORRELATION_ID_END_MARKER)
IsMarker(line) == IsBegin(line) \/ IsEnd(line)
IsCommand(line) == \E c \in Commands : line = <<c>>

\* The identifier a marker command names: the digits behind the marker
MarkerId(line) ==
    DecimalValue(SelectSeq(line, LAMBDA tok : tok \in Range(Digits)))

\* Lines b < e of text are the begin and end marker of one span
IsSpan(text, b, e) ==
    /\ b < e
    /\ IsBegin(text[b])
    /\ IsEnd(text[e])
    /\ MarkerId(text[b]) = MarkerId(text[e])
    /\ \A k \in (b + 1)..(e - 1) : ~IsMarker(text[k])

UnitTestLeaves ==
    <<Statement("Exec", "print abc"), Statement("Check", "abc"),
      Statement("Exec", "print xyz"), Statement("Check", "xyz")>>

UnitTestScript ==
    <<<<CORRELATION_ID_BEGIN_MARKER, "0">>, <<"print abc">>,
      <<CORRELATION_ID_END_MARKER, "0">>,
      <<CORRELATION_ID_BEGIN_MARKER, "1">>, <<"print xyz">>,
      <<CORRELATION_ID_END_MARKER, "1">>>>

\* C7: a synthesized script has balanced, non-nested span markers: every
\* begin marker is followed by the end marker of its identifier before any
\* other marker, every end marker closes such a span (so no span is left
\* open), each identifier of a command has exactly one begin marker, and
\* every command line lies inside a span; for command/check/command/check
\* under the null backend the script is exactly the six lines of the unit
\* test.
C7_SpansBalanced ==
    Synthesized =>
        LET text == debugger_script
        IN  /\ \A b \in DOMAIN text :
                  IsBegin(text[b]) => \E e \in DOMAIN text : IsSpan(text, b, e)
            /\ \A e \in DOMAIN text :
                  IsEnd(text[e]) => \E b \in DOMAIN text : IsSpan(text, b, e)
            /\ \A id \in ExecIds(synth_script) :
                  Cardinality({b \in DOMAIN text :
                                  IsBegin(text[b]) /\ MarkerId(text[b]) = id}) = 1
            /\ \A b \in DOMAIN text :
                  IsBegin(text[b]) => MarkerId(text[b]) \in ExecIds(synth_script)
            /\ \A k \in DOMAIN text :
                  IsCommand(text[k]) =>
                      \E b, e \in DOMAIN text : b < k /\ k < e /\ IsSpan(text, b, e)
            /\ Cardinality({k \in DOMAIN text : IsCommand(text[k])})
                  = Cardinality({i \in DOMAIN leaves : IsExec(leaves[i])})
            /\ (/\ kind = "Mock" /\ prelude = <<>> /\ breakpoints = <<>>
                /\ leaves = UnitTestLeaves)
               => text = UnitTestScript

\* the unit test's script, generated
C7_Witness ==
    /\ pc = "Running"
    /\ kind = "Mock"
    /\ leaves = UnitTestLeaves
    /\ debugger_script = UnitTestScript

\* C8: once both passes of a pipeline have run, the identifiers written in
\* verification equal those written in synthesis leaf by leaf, and every
\* identifier that owns a check in verification has a begin/end span in the
\* synthesized script.
C8_PassesAgree ==
    test_result # None =>
        /\ Len(verify_script) = Len(synth_script)
        /\ \A i \in DOMAIN verify_script : verify_script[i].cid = synth_script[i].cid
        /\ \A i \in DOMAIN verify_script :
              (IsCheck(verify_script[i]) /\ IsSome(verify_script[i].cid)) =>
                  \E b, e \in DOMAIN debugger_script :
                      /\ IsSpan(debugger_script, b, e)
                      /\ MarkerId(debugger_script[b]) = Unwrap(verify_script[i].cid)

\* a real backend's pipeline in which the second identifier owns a check
C8_Witness ==
    /\ pc = "Finished"
    /\ kind = "Gdb"
    /\ Len(verify_script) = 4
    /\ IsCheck(verify_script[4])
    /\ verify_script[4].cid = Some(1)

\* Every check leaf of the sequence is dangling: no command precedes it
AllChecksDangling(ls) ==
    /\ \E i \in DOMAIN ls : IsCheck(ls[i])
    /\ \A i \in DOMAIN ls : IsCheck(ls[i]) => \A j \in 1..(i - 1) : ~IsExec(ls[j])

\* C6: in the null backend's pipeline over a sequence whose only checks are
\* dangling, the checks' slots stay unset, each pass records a warning, and
\* process_debugger_output returns Passed.
C6_DanglingCheckPasses ==
    (test_result # None /\ kind = "Mock" /\ AllChecksDangling(leaves)) =>
        /\ \A i \in DOMAIN leaves : IsCheck(leaves[i]) => verify_script[i].cid = None
        /\ \A i \in DOMAIN leaves : IsCheck(leaves[i]) => <<"verification", i>> \in Range(log)
        /\ Unwrap(test_result).status = "Passed"

\* ---- the protocol as the specification states it, for the claims about
\* ---- process_debugger_output

\* The last command before leaf i (0: none)
PrevExec(ls, i) ==
    IF \E j \in 1..(i - 1) : IsExec(ls[j])
    THEN CHOOSE j \in 1..(i - 1) :
            IsExec(ls[j]) /\ \A k \in (j + 1)..(i - 1) : ~IsExec(ls[k])
    ELSE 0

\* Command i opens a new span: it is the first command, or a check lies
\* between the previous command and it
StartsSpan(ls, i) ==
    /\ IsExec(ls[i])
    /\ \/ PrevExec(ls, i) = 0
       \/ \E k \in (PrevExec(ls, i) + 1)..(i - 1) : IsCheck(ls[k])

\* The identifier of the span command i belongs to
SpanOf(ls, i) == Cardinality({j \in 1..i : StartsSpan(ls, j)}) - 1

\* The identifier that owns check i: that of the most recent command
Owner(ls, i) ==
    IF PrevExec(ls, i) = 0 THEN None ELSE Some(SpanOf(ls, PrevExec(ls, i)))

Owners(ls) == {Unwrap(Owner(ls, i)) : i \in {j \in DOMAIN ls :
                                               IsCheck(ls[j]) /\ Owner(ls, j) # None}}

RECURSIVE OwnedUpTo(_, _, _)
\* The checks among the first n leaves that identifier id owns, in order
OwnedUpTo(ls, id, n) ==
    IF n = 0 THEN <<>>
    ELSE IF IsCheck(ls[n]) /\ Owner(ls, n) = Some(id)
         THEN Append(OwnedUpTo(ls, id, n - 1), ls[n])
         ELSE OwnedUpTo(ls, id, n - 1)

Owned(ls, id) == OwnedUpTo(ls, id, Len(ls))

\* The check list can be embedded in order into the lines
Embeds(checks, lines) ==
    \/ checks = <<>>
    \/ \E f \in [DOMAIN checks -> DOMAIN lines] :
          /\ \A a, b \in DOMAIN checks : a < b => f[a] < f[b]
          /\ \A a \in DOMAIN checks : CheckMatches(checks[a].text, lines[f[a]])

\* Every identifier that owns checks has span lines the checks embed into
AllEmbedded(ls, spans) ==
    \A id \in Owners(ls) : id \in DOMAIN spans /\ Embeds(Owned(ls, id), spans[id])

\* Shapes of directive sequences
NoDanglingCheck(ls) == \A i \in DOMAIN ls : IsCheck(ls[i]) => PrevExec(ls, i) # 0
OnlyOrderedChecks(ls) == \A i \in DOMAIN ls : ls[i].kind \in {"Exec", "Check"}
OneCheckPerId(ls) == \A id \in Owners(ls) : Len(Owned(ls, id)) = 1

\* Shapes of stdout
Stdout == Unwrap(debugger_output).stdout
BeginAt(out, i) == StartsWith(out[i], CORRELATION_ID_BEGIN_MARKER)
EndAt(out, i) == StartsWith(out[i], CORRELATION_ID_END_MARKER)
OpenAtEnd(out) ==
    \E b \in DOMAIN out : BeginAt(out, b) /\ \A e \in (b + 1)..Len(out) : ~EndAt(out, e)
DoubleBegin(out) ==
    \E b, c \in DOMAIN out :
        /\ b < c
        /\ BeginAt(out, b)
        /\ BeginAt(out, c)
        /\ \A e \in (b + 1)..(c - 1) : ~EndAt(out, e)
StrayEnd(out) ==
    \E e \in DOMAIN out :
        /\ EndAt(out, e)
        /\ \A b \in 1..(e - 1) :
              BeginAt(out, b) => \E d \in (b + 1)..(e - 1) : EndAt(out, d)
WellFormed(out) == ~OpenAtEnd(out) /\ ~DoubleBegin(out) /\ ~StrayEnd(out)
IdsParse(out) ==
    \A b \in DOMAIN out : BeginAt(out, b) => extract_correlation_id(out[b]) # None

Processed == test_result # None
Status == Unwrap(test_result).status
Spans == debugger_output_by_correlation_id(Unwrap(debugger_output)).result

\* C1: over commands and ordered checks none of which is dangling, and a
\* stdout the partitioner accepts, process_debugger_output returns Passed
\* exactly when, for every identifier that owns checks, the checks embed in
\* order into the identifier's span lines.
C1_SubsequenceVerdict ==
    (/\ Processed
     /\ OnlyOrderedChecks(leaves)
     /\ NoDanglingCheck(leaves)
     /\ debugger_output_by_correlation_id(Unwrap(debugger_output)).outcome = "Ok")
    => (Status = "Passed" <=> AllEmbedded(leaves, Spans))

\* C1 where no identifier owns more than one check
C1_SingleCheckVerdict ==
    (/\ Processed
     /\ OnlyOrderedChecks(leaves)
     /\ NoDanglingCheck(leaves)
     /\ OneCheckPerId(leaves)
     /\ debugger_output_by_correlation_id(Unwrap(debugger_output)).outcome = "Ok")
    => (Status = "Passed" <=> AllEmbedded(leaves, Spans))

\* C5: over a directive sequence that process_debugger_output can handle and
\* a stdout whose begin markers name numbers, a span left open at the end of
\* stdout, or a second begin marker before an end marker, gives Errored.
C5_UnclosedSpanErrored ==
    (/\ Processed
     /\ OnlyOrderedChecks(leaves)
     /\ NoDanglingCheck(leaves)
     /\ OneCheckPerId(leaves)
     /\ IdsParse(Stdout)
     /\ (OpenAtEnd(Stdout) \/ DoubleBegin(Stdout)))
    => Status = "Errored"

\* C5 for the second begin marker alone
C5_DoubleBeginErrored ==
    (/\ Processed
     /\ OnlyOrderedChecks(leaves)
     /\ NoDanglingCheck(leaves)
     /\ OneCheckPerId(leaves)
     /\ IdsParse(Stdout)
     /\ DoubleBegin(Stdout))
    => Status = "Errored"

\* C9: over commands and ordered checks, with identifier assignment
\* completing and no check dangling, process_debugger_output returns Passed,
\* Failed or Errored for every stdout, whatever follows its markers.
C9_NeverAborts ==
    (/\ Processed
     /\ OnlyOrderedChecks(leaves)
     /\ NoDanglingCheck(leaves)
     /\ OneCheckPerId(leaves))
    => Status \in {"Passed", "Failed", "Errored"}

\* The checks an identifier owns in the clone verification wrote
VerifyOwners ==
    {Unwrap(verify_script[i].cid) : i \in {j \in DOMAIN verify_script :
                                   IsCheck(verify_script[j])
                                   /\ IsSome(verify_script[j].cid)}}
VerifyOwned(id) == SelectSeq(verify_script, LAMBDA l : IsCheck(l) /\ l.cid = Some(id))
Matched(id) == id \in DOMAIN Spans /\ Embeds(VerifyOwned(id), Spans[id])

\* C10: Errored only for a stdout with malformed span markers; Failed only
\* for a well-formed stdout with some check unmatched; Passed only when every
\* identifier that owns checks has a span its checks embed into.
C10_VerdictShape ==
    Processed =>
        /\ Status = "Errored" => ~WellFormed(Stdout)
        /\ Status = "Failed" =>
              WellFormed(Stdout) /\ \E id \in VerifyOwners : ~Matched(id)
        /\ Status = "Passed" => \A id \in VerifyOwners : Matched(id)

\* C10 with a span left open at the end of stdout allowed under Failed
C10_VerdictShapeButOpenSpan ==
    Processed =>
        /\ Status = "Errored" => ~WellFormed(Stdout)
        /\ Status = "Failed" =>
              /\ ~DoubleBegin(Stdout) /\ ~StrayEnd(Stdout)
              /\ \E id \in VerifyOwners : ~Matched(id)
        /\ Status = "Passed" => \A id \in VerifyOwners : Matched(id)

\* ---- C11: the mock backend echoes the script

\* An ordered check that follows a command and whose pattern matches no line
\* of the emitted script
UnmatchedCheck(ls, text) ==
    \E i \in DOMAIN ls :
        /\ ls[i].kind = "Check"
        /\ PrevExec(ls, i) # 0
        /\ \A n \in DOMAIN text : ~CheckMatches(ls[i].text, text[n])

\* C11: end to end with the mock backend, over a sequence of commands and
\* ordered checks, when an ordered check that follows a command has a pattern
\* that matches no line of the emitted script, process_debugger_output
\* returns Failed.
C11_UnmatchedCheckFails ==
    (/\ kind = "Mock"
     /\ Processed
     /\ OnlyOrderedChecks(leaves)
     /\ UnmatchedCheck(leaves, debugger_script))
    => Status = "Failed"

\* The same with every check after a command: then the verdict is Failed
C11_UnmatchedCheckFailsAfterCommands ==
    (/\ kind = "Mock"
     /\ Processed
     /\ OnlyOrderedChecks(leaves)
     /\ NoDanglingCheck(leaves)
     /\ UnmatchedCheck(leaves, debugger_script))
    => Status = "Failed"

\* A sequence with an unmatched check after a command reaches a verdict
C11_FailedReached ==
    /\ kind = "Mock"
    /\ Processed
    /\ OnlyOrderedChecks(leaves)
    /\ NoDanglingCheck(leaves)
    /\ UnmatchedCheck(leaves, debugger_script)
    /\ Status = "Failed"

\* ---- C12: concurrent pipeline runs

RECURSIVE WalkBefore(_, _, _)
\* The walk of a run that is alone, when it is about to visit leaf n
WalkBefore(st, i, n) ==
    IF i >= n \/ st.panic # "none" THEN st
    ELSE WalkBefore(assign_visit(st, i), i + 1, n)

\* What a run that is alone synthesizes and returns
Alone == generate_debugger_script(kind, prelude, breakpoints, leaves)
AloneResult ==
    process_debugger_output(leaves, create_mock_debugger_output(Alone.text)).test_result

\* C12: under every interleaving of the runs' steps, the identifier slots of
\* the original directive sequence stay unset, the clone a run is walking
\* holds exactly the identifiers the run's own visits have written, and each
\* run's script and TestResult (or abort) are those of a run that is alone.
C12_PipelinesDoNotInterfere ==
    pc = "Concurrent" =>
        /\ \A i \in DOMAIN leaves : leaves[i].cid = None
        /\ \A r \in Runs :
              /\ runs[r].pc \in {"SynthAssigning", "VerifyAssigning"}
                 => runs[r].walk = WalkBefore(AssignInit(leaves), 1, runs[r].position)
              /\ runs[r].pc = "SynthAborted" => Alone.panic # "none"
              /\ runs[r].pc \in {"Running", "Partitioning", "VerifyAssigning",
                                 "VerifyAborted", "Finished"}
                 => Alone.panic = "none" /\ runs[r].text = Alone.text
              /\ runs[r].pc \in {"VerifyAborted", "Finished"}
                 => runs[r].result = Some(AloneResult)

\* Two runs are in the middle of their walks at once, one synthesizing and
\* one verifying, each with an identifier in its own clone
C12_Witness ==
    /\ pc = "Concurrent"
    /\ runs[1].pc = "VerifyAssigning"
    /\ runs[2].pc = "SynthAssigning"
    /\ runs[1].position = 2
    /\ runs[2].position = 2
    /\ runs[1].walk.script[1].cid = Some(0)
    /\ runs[2].walk.script[1].cid = Some(0)
    /\ Len(leaves) = 2
    /\ IsCheck(leaves[2])

\* ---- C13: the backend kind without a command mapping

\* One contract has been called
Called(contract) == pc # "Calling" /\ log # <<>> /\ log[1].contract = contract

\* The marker command of Lldb, for the identifiers 0 and 1
LldbMarkerCommand(begin, id) ==
    <<"script print('",
      IF begin THEN CORRELATION_ID_BEGIN_MARKER ELSE CORRELATION_ID_END_MARKER,
      IF id = 0 THEN "0" ELSE "1",
      "')">>

BlockIds(ls) ==
    {Unwrap(Owner(ls, i)) : i \in {j \in DOMAIN ls :
                                      /\ ls[j].kind = "CheckUnorderedBlock"
                                      /\ Owner(ls, j) # None}}
FirstBlockId(ls) == CHOOSE b \in BlockIds(ls) : \A c \in BlockIds(ls) : b <= c

PartitionOutcome == debugger_output_by_correlation_id(Unwrap(debugger_output)).outcome

\* The matching loop arrives at identifier b: identifiers were assigned and
\* collected, stdout was partitioned, and the checks of every lower
\* identifier were found
MatchingReaches(b) ==
    /\ OneCheckPerId(leaves)
    /\ NoDanglingCheck(leaves)
    /\ PartitionOutcome = "Ok"
    /\ \A id \in Owners(leaves) :
          id < b => id \in DOMAIN Spans /\ Embeds(Owned(leaves, id), Spans[id])

Extracted(by) == pc = "Extracted" /\ version.by = by

\* C15: on a "GNU gdb (<build>) <version>" line extract_gdb_version returns
\* the trailing version and extract_cdb_version returns None; on a
\* "cdb version <version>" line extract_cdb_version returns the version and
\* extract_gdb_version returns None.  The lines of the unit tests are among
\* them: "8.2.1" for (GDB), "9.2" for (Ubuntu 9.2-0ubuntu1~20.04) and
\* "10.0.21349.1004" for cdb.
C15_ExtractorsExclusive ==
    /\ \A sep \in Separators, build \in BuildNames, v \in Versions :
          version_output = GdbLine(sep, build, v)
          => /\ Extracted("extract_gdb_version") => version.value = Some(v)
             /\ Extracted("extract_cdb_version") => version.value = None
             /\ Extracted("Gdb") => version.value = Some(v)
             /\ pc = "Extracted" => version.by \notin {"Cdb", "next line"}
    /\ \A sep \in Separators, v \in Versions :
          version_output = CdbLine(sep, v)
          => /\ Extracted("extract_cdb_version") => version.value = Some(v)
             /\ Extracted("extract_gdb_version") => version.value = None
             /\ Extracted("Cdb") => version.value = Some(v)
             /\ pc = "Extracted" => version.by \notin {"Gdb", "next line"}

\* The Ubuntu line of the unit test has gone through extract_gdb_version
C15_Witness ==
    /\ Extracted("extract_gdb_version")
    /\ version_output = GdbLine(<<" ">>, <<"(", "U", "b", "u", "n", "t", "u", " ", "9", ".", "2", "-", "0", "u", "b", "u", "n", "t", "u", "1", "~", "2", "0", ".", "0", "4", ")">>,
                                <<"9", ".", "2">>)
    /\ version.value = Some(<<"9", ".", "2">>)

\* ---- C16: several checks after one command

\* Every check with a command before it has that command's identifier, and
\* the identifier is recorded as checked
ChecksFollowCommands ==
    \A i \in DOMAIN leaves :
        (IsCheck(leaves[i]) /\ PrevExec(leaves, i) # 0)
        => /\ walk.script[i].cid # None
           /\ walk.script[i].cid = walk.script[PrevExec(leaves, i)].cid
           /\ Unwrap(walk.script[i].cid) \in walk.correlation_ids_checked

\* C16: over every leaf sequence, with two or more checks after one command
\* too, the walk of assign_correlation_ids runs to completion, every check
\* with a command before it has the identifier of the most recent command,
\* and that identifier is recorded as checked.
C16_EveryCheckGetsLastId ==
    WalkEnded => walk.panic = "none" /\ ChecksFollowCommands

\* The same where no command is followed by two checks: then it holds
C16_SingleChecksGetLastId ==
    (WalkEnded /\ OneCheckPerId(leaves))
    => walk.panic = "none" /\ ChecksFollowCommands

\* ---- C17: identifiers are not reused once consumed

\* The commands the walk has visited, and their identifiers
VisitedExecs ==
    {i \in DOMAIN walk.script : IsExec(walk.script[i]) /\ walk.script[i].cid # None}
IdOf(i) == Unwrap(walk.script[i].cid)

\* C17: at every step of the walk, the identifiers of the visited commands
\* start at 0 and grow by 0 or 1 from one command to the next; two commands
\* have the same identifier exactly when no check leaf lies between them;
\* and an identifier that a check has recorded is given to no later command.
C17_IdsNeverReused ==
    pc = "Assigning" =>
        /\ \A j \in VisitedExecs :
              IF PrevExec(walk.script, j) = 0 THEN IdOf(j) = 0
              ELSE /\ PrevExec(walk.script, j) \in VisitedExecs
                   /\ IdOf(j) - IdOf(PrevExec(walk.script, j)) \in {0, 1}
        /\ \A i, j \in VisitedExecs :
              i < j => (IdOf(i) = IdOf(j)
                        <=> ~\E k \in (i + 1)..(j - 1) : IsCheck(walk.script[k]))
        /\ \A k \in DOMAIN walk.script :
              (IsCheck(walk.script[k]) /\ walk.script[k].cid # None)
              => /\ Unwrap(walk.script[k].cid) \in walk.correlation_ids_checked
                 /\ \A j \in VisitedExecs : j > k => IdOf(j) # Unwrap(walk.script[k].cid)

\* Two commands share identifier 0, a check records it, and the next
\* command has identifier 1
C17_Witness ==
    /\ WalkEnded
    /\ walk.panic = "none"
    /\ \E i, j, k, l \in DOMAIN walk.script :
          /\ i < j /\ j < k /\ k < l
          /\ {i, j, l} \subseteq VisitedExecs
          /\ IsCheck(walk.script[k])
          /\ IdOf(i) = 0
          /\ IdOf(j) = 0
          /\ walk.script[k].cid = Some(0)
          /\ IdOf(l) = 1

\* ---- C18: the last identifier trails the counter by one

\* C18: at every step of the walk, last_correlation_id_emitted is None with
\* next_correlation_id 0, or it is next_correlation_id - 1; so the
\* debug_assert_eq! of the check arm never fails.
C18_LastIsCounterMinusOne ==
    pc = "Assigning" =>
        /\ \/ /\ walk.last_correlation_id_emitted = None
              /\ walk.next_correlation_id = 0
           \/ walk.last_correlation_id_emitted = Some(walk.next_correlation_id - 1)
        /\ walk.panic # "debug_assert_last_id"

\* A check has been visited after the second identifier was allocated
C18_Witness ==
    /\ pc = "Assigning"
    /\ walk.panic = "none"
    /\ walk.next_correlation_id = 2
    /\ walk.last_correlation_id_emitted = Some(1)
    /\ \E k \in DOMAIN walk.script :
          IsCheck(walk.script[k]) /\ walk.script[k].cid = Some(1)

\* ---- C19: an end marker with no span open

\* C19: when stdout holds an end-marker line that arrives while no span is
\* open, process_debugger_output returns Errored, whatever the checks are.
\* (Stated where every check stands alone after its command or has none, and
\* the identifiers of the begin markers are numbers.)
C19_StrayEndErrored ==
    (/\ Processed
     /\ StrayEnd(Stdout)
     /\ OneCheckPerId(leaves)
     /\ IdsParse(Stdout))
    => Status = "Errored"

\* The same with every check after a command: then the result is Errored
C19_StrayEndErroredAfterCommands ==
    (/\ Processed
     /\ StrayEnd(Stdout)
     /\ OneCheckPerId(leaves)
     /\ NoDanglingCheck(leaves)
     /\ IdsParse(Stdout))
    => Status = "Errored"

\* The partitioner itself returns Errored for every such stdout
C19_PartitionerRejectsStrayEnd ==
    (Processed /\ StrayEnd(Stdout) /\ IdsParse(Stdout))
    => PartitionOutcome = "Errored"

\* ---- C20: what a partition holds

\* The partitioner's loop has ended, at the end of stdout or by a return
PartitionEnded ==
    pc = "PartitionLoop" /\ (position > Len(Stdout) \/ part.outcome # "Ok")

\* The begin markers of identifier id, and the lines strictly between begin
\* marker b and the first end marker after it
BeginsOf(out, id) ==
    {b \in DOMAIN out : BeginAt(out, b) /\ extract_correlation_id(out[b]) = Some(id)}
EndOf(out, b) ==
    CHOOSE e \in (b + 1)..Len(out) :
        EndAt(out, e) /\ \A d \in (b + 1)..(e - 1) : ~EndAt(out, d)
Between(out, b) == SubSeq(out, b + 1, EndOf(out, b) - 1)
LastBegin(out, id) == CHOOSE b \in BeginsOf(out, id) : \A c \in BeginsOf(out, id) : c <= b
SpanIds(out) == {id \in {0, 1} : BeginsOf(out, id) # {}}

\* C20: for a well-formed stdout (every begin marker closed before the next
\* one, no end marker without a span, numeric identifiers), the partitioner
\* returns a map whose keys are the identifiers of the spans, and the
\* partition of an identifier is exactly the lines strictly between its
\* begin marker and the end marker that closes it, in order (of its last
\* span when stdout has several spans for the identifier).  So no marker
\* line and no line outside a span is in a partition.
C20_PartitionIsSpanLines ==
    (PartitionEnded /\ WellFormed(Stdout) /\ IdsParse(Stdout))
    => /\ part.outcome = "Ok"
       /\ DOMAIN part.result = SpanIds(Stdout)
       /\ \A id \in SpanIds(Stdout) :
             /\ part.result[id] = Between(Stdout, LastBegin(Stdout, id))
             /\ \A n \in DOMAIN part.result[id] : ~IsMarker(part.result[id][n])

\* A span of one line is partitioned, and a line outside it is dropped
C20_Witness ==
    /\ PartitionEnded
    /\ WellFormed(Stdout)
    /\ IdsParse(Stdout)
    /\ Len(Stdout) = 4
    /\ Stdout[1] = <<"noise">>
    /\ DOMAIN part.result = {1}
    /\ part.result[1] = <<<<"abc">>>>

\* ---- C21: an identifier with checks and no span

\* The identifiers whose checks are not all found, and the lowest of them
FailingIds ==
    {id \in Owners(leaves) :
        id \notin DOMAIN Spans \/ ~Embeds(Owned(leaves, id), Spans[id])}
LowestFailingId == CHOOSE f \in FailingIds : \A g \in FailingIds : f <= g

\* The lowest failing identifier has no span, and the result is Failed,
\* names the first check of that identifier and carries the DebuggerOutput
MissingSpanReported ==
    LET result == Unwrap(test_result)
    IN  /\ result.status = "Failed"
        /\ result.message.what = "check failed"
        /\ result.message.expected = Owned(leaves, LowestFailingId)[1].text
        /\ result.output = debugger_output

\* C21: over commands and ordered checks, each check after a command, and a
\* stdout the partitioner accepts: when the lowest identifier whose checks
\* are not all found owns one or more checks and has no span, the result is
\* Failed, names the first check of that identifier and carries the
\* captured DebuggerOutput.
C21_MissingSpanFails ==
    (/\ Processed
     /\ OnlyOrderedChecks(leaves)
     /\ NoDanglingCheck(leaves)
     /\ PartitionOutcome = "Ok"
     /\ FailingIds # {}
     /\ LowestFailingId \notin DOMAIN Spans)
    => MissingSpanReported

\* The same where every identifier owns exactly one check: then it holds
C21_MissingSpanFailsSingleChecks ==
    (/\ Processed
     /\ OnlyOrderedChecks(leaves)
     /\ NoDanglingCheck(leaves)
     /\ OneCheckPerId(leaves)
     /\ PartitionOutcome = "Ok"
     /\ FailingIds # {}
     /\ LowestFailingId \notin DOMAIN Spans)
    => MissingSpanReported

\* Two identifiers have no span, and the lower one is reported
C21_LowestMissingSpanReached ==
    /\ Processed
    /\ OnlyOrderedChecks(leaves)
    /\ PartitionOutcome = "Ok"
    /\ FailingIds = {0, 1}
    /\ DOMAIN Spans = {}
    /\ MissingSpanReported

\* ---- C22: stderr and the exit status

BothProcessed == pc = "Comparing" /\ \A c \in PairCalls : runs[c].result # None
PairResult(c) == Unwrap(runs[c].result)

\* C22: for two DebuggerOutputs with the same stdout and different stderr or
\* exit status, the two calls end alike: the same status (Passed, Failed,
\* Errored, or the same abort) and the same message; a Failed result
\* carries the output its own call was given.
C22_VerdictIgnoresStderrAndExit ==
    BothProcessed =>
        /\ PairResult(1).status = PairResult(2).status
        /\ PairResult(1).message = PairResult(2).message
        /\ \A c \in PairCalls :
              PairResult(c).output =
                  IF PairResult(c).status = "Failed" THEN runs[c].output ELSE None

\* A check is found in both outputs, one of a debugger that succeeded and
\* one of a debugger that failed and wrote to stderr: both are Passed
C22_Witness ==
    /\ BothProcessed
    /\ Unwrap(runs[1].output).exit_status = "Success"
    /\ Unwrap(runs[2].output).exit_status = "Failure"
    /\ Unwrap(runs[2].output).stderr = "error"
    /\ \E i \in DOMAIN leaves : leaves[i].kind = "Check"
    /\ PairResult(1).status = "Passed"
    /\ PairResult(2).status = "Passed"

\* A check is missed in both outputs: both are Failed with one message
C22_FailedTwiceReached ==
    /\ BothProcessed
    /\ Unwrap(runs[1].output).exit_status # Unwrap(runs[2].output).exit_status
    /\ PairResult(1).status = "Failed"
    /\ PairResult(2).status = "Failed"
    /\ PairResult(1).message.what = "Could not find"

\* ---- C23: the line buffer between spans

\* C23: at every step of the partitioner's loop, over every stdout, the
\* buffer current_lines is empty whenever no span is open; so
\* assert!(current_lines.is_empty()) at an accepted begin marker never
\* fails.
C23_BufferEmptyBetweenSpans ==
    pc = "PartitionLoop" =>
        /\ part.current_id = None => part.current_lines = <<>>
        /\ part.outcome # "panic_assert_lines_empty"

\* A begin marker has been accepted after a span with a line was closed
C23_Witness ==
    /\ pc = "PartitionLoop"
    /\ part.outcome = "Ok"
    /\ position = 5
    /\ part.current_id = Some(1)
    /\ part.current_lines = <<>>
    /\ 0 \in DOMAIN part.result
    /\ part.result[0] # <<>>


====
